---- MODULE Spec2Model ----
(***************************************************************************)
(* Bifid cipher (src/BifidCipher.py, src/main.py).                         *)
(*                                                                         *)
(* A Python str is a sequence of one-character strings.  A Coordinate is   *)
(* the pair <<row, col>>.  A call that can raise returns the record        *)
(* [err |-> <exception class or "">, val |-> <value when err = "">].       *)
(***************************************************************************)
EXTENDS Integers, Sequences, FiniteSets

VARIABLES pc,               \* "new" | "ready" | "failed": the BifidCipher object
          key,              \* polybius_square_string given to __init__
          polybius_square,  \* self.polybius_square
          period,           \* self.period
          op,               \* the last call: "none" | "init" | "encrypt" | "decrypt"
          arg,              \* the message given to the last call
          periods,          \* the local `periods` of the last call
          ret,              \* what the last call returned or raised
          plain,            \* main(): the plaintext whose ciphertext `a` is being decrypted
          chained,          \* main(): TRUE when arg is the `a` that encrypt_message returned
          step,             \* coordinate transforms: "input" | "encrypted" | "decrypted" | "direct"
          given,            \* the list[Coordinate] given to the transform
          fractionated,     \* _get_encrypted_coordinates(given)
          defractionated    \* _get_decrypted_coordinates(fractionated.val), or of given

engine == <<pc, key, polybius_square, period>>

call == <<op, arg, periods, ret, plain, chained>>

transform == <<step, given, fractionated, defractionated>>

vars == <<engine, call, transform>>

-----------------------------------------------------------------------------
(* Bounds of the model *)

MaxLen == 3
MaxPeriod == 3
MaxCoords == 3
MaxDraw == 1

-----------------------------------------------------------------------------
(* Values *)

None == <<"None">>

Ok(v) == [err |-> "", val |-> v]

Raise(e) == [err |-> e, val |-> <<>>]

UpperCase ==
  <<"A","B","C","D","E","F","G","H","I","J","K","L","M",
    "N","O","P","Q","R","S","T","U","V","W","X","Y","Z">>

LowerCase ==
  <<"a","b","c","d","e","f","g","h","i","j","k","l","m",
    "n","o","p","q","r","s","t","u","v","w","x","y","z">>

Digits == {"0","1","2","3","4","5","6","7","8","9"}

\* textwrap._whitespace: tab, newline, vertical tab, form feed, carriage return, space
Whitespace == {"\t", "\n", "", "\f", "\r", " "}

Range(s) == {s[i] : i \in 1..Len(s)}

RECURSIVE Join(_)
Join(ss) == IF ss = <<>> THEN <<>> ELSE Head(ss) \o Join(Tail(ss))

Min(a, b) == IF a <= b THEN a ELSE b

\* str.upper(), one character
UpperChar(c) ==
  IF \E i \in 1..26 : LowerCase[i] = c
  THEN UpperCase[CHOOSE i \in 1..26 : LowerCase[i] = c]
  ELSE c

\* str.upper()
Upper(s) == [i \in 1..Len(s) |-> UpperChar(s[i])]

\* str.replace(old, '') for a one-character old
Delete(s, old) == SelectSeq(s, LAMBDA c : c # old)

\* str.replace(old, new) for one-character old and new
Replace(s, old, new) == [i \in 1..Len(s) |-> IF s[i] = old THEN new ELSE s[i]]

Letters == Range(UpperCase) \cup Range(LowerCase)

\* the characters the class [\W_] does not match: letters and digits
IsAlnum(c) == c \in Letters \cup Digits

\* BifidCipher.ALPHABET
ALPHABET ==
  <<"A","B","C","D","E","F","G","H","I","K","L","M","N",
    "O","P","Q","R","S","T","U","V","W","X","Y","Z">>

-----------------------------------------------------------------------------
(* Coordinate *)

Coordinate(row, col) == <<row, col>>

Row(c) == c[1]

Col(c) == c[2]

\* from_list with the loop stopping one pair early: range(0, len(values) - 2, 2)
from_list_short(values) ==
  IF Len(values) % 2 # 0
  THEN Raise("ValueError")
  ELSE Ok([i \in 1..((Len(values) \div 2) - 1) |-> <<values[2 * i - 1], values[2 * i]>>])

\* Coordinate.from_list
from_list(values) ==
  IF Len(values) % 2 # 0
  THEN Raise("ValueError")
  ELSE Ok([i \in 1..(Len(values) \div 2) |->
             Coordinate(values[2 * i - 1], values[2 * i])])

\* Coordinate.to_list; coordinate.row of None raises AttributeError
to_list(values) ==
  IF \E i \in 1..Len(values) : values[i] = None
  THEN Raise("AttributeError")
  ELSE Ok([k \in 1..(2 * Len(values)) |->
             IF k % 2 = 1 THEN Row(values[(k + 1) \div 2])
                          ELSE Col(values[k \div 2])])

-----------------------------------------------------------------------------
(* BifidCipher: the pure helpers *)

\* _clean_input_string replacing J before it upper-cases
clean_input_string_early(input_string) ==
  LET s1 == SelectSeq(input_string, LAMBDA c : c # " ")
      s2 == [i \in 1..Len(s1) |-> IF s1[i] = "J" THEN "I" ELSE s1[i]]
      s3 == [i \in 1..Len(s2) |-> UpperChar(s2[i])]
  IN  SelectSeq(s3, IsAlnum)

\* BifidCipher._clean_input_string
clean_input_string(input_string) ==
  LET s1 == Delete(input_string, " ")
      s2 == Upper(s1)
      s3 == Replace(s2, "J", "I")
  IN  SelectSeq(s3, IsAlnum)

\* _process_polybius_square turning the J of a key into I instead of deleting it
process_polybius_square_merge(polybius_square_string, sample) ==
  LET s0 == IF polybius_square_string = None THEN sample
            ELSE polybius_square_string
      s1 == [i \in 1..Len(s0) |->
               IF UpperChar(s0[i]) = "J" THEN "I" ELSE UpperChar(s0[i])]
      s2 == SelectSeq(s1, LAMBDA c : c # " " /\ IsAlnum(c))
  IN  IF Len(s2) # 25
      THEN Raise("ValueError")
      ELSE Ok([r \in 1..5 |-> SubSeq(s2, 5 * (r - 1) + 1, 5 * r)])

\* BifidCipher._process_polybius_square; sample is what random.sample returns
process_polybius_square(polybius_square_string, sample) ==
  LET s0 == IF polybius_square_string = None THEN sample
            ELSE polybius_square_string
      s1 == Delete(Upper(s0), "J")
      s2 == clean_input_string(s1)
  IN  IF Len(s2) # 25
      THEN Raise("ValueError")
      ELSE Ok([r \in 1..5 |-> SubSeq(s2, 5 * (r - 1) + 1, 5 * r)])

\* BifidCipher._get_coordinate; falls off the end (returns None) when absent
get_coordinate(square, character) ==
  IF Len(character) # 1
  THEN Raise("ValueError")
  ELSE LET hits == {k \in 0..24 : square[(k \div 5) + 1][(k % 5) + 1] = character[1]}
       IN  IF hits = {}
           THEN Ok(None)
           ELSE LET k == CHOOSE h \in hits : \A g \in hits : h <= g
                IN  Ok(Coordinate(k \div 5, k % 5))

\* BifidCipher._get_character_from_coordinate
get_character_from_coordinate(square, coordinate) ==
  square[Row(coordinate) + 1][Col(coordinate) + 1]

\* _get_encrypted_coordinates concatenating column_values + row_values
get_encrypted_coordinates_swapped(coordinates) ==
  IF \E i \in 1..Len(coordinates) : coordinates[i] = None
  THEN Raise("AttributeError")
  ELSE LET row_values == [i \in 1..Len(coordinates) |-> coordinates[i][1]]
           column_values == [i \in 1..Len(coordinates) |-> coordinates[i][2]]
           values == column_values \o row_values
       IN  Ok([i \in 1..Len(coordinates) |-> <<values[2 * i - 1], values[2 * i]>>])

\* BifidCipher._get_encrypted_coordinates
get_encrypted_coordinates(coordinates) ==
  IF \E i \in 1..Len(coordinates) : coordinates[i] = None
  THEN Raise("AttributeError")
  ELSE LET row_values == [i \in 1..Len(coordinates) |-> Row(coordinates[i])]
           column_values == [i \in 1..Len(coordinates) |-> Col(coordinates[i])]
       IN  from_list(row_values \o column_values)

\* _get_decrypted_coordinates pairing the flat list two at a time, not by halves
get_decrypted_coordinates_pairwise(coordinates) ==
  LET flat == to_list(coordinates)
  IN  IF flat.err # "" THEN flat ELSE from_list(flat.val)

\* BifidCipher._get_decrypted_coordinates
get_decrypted_coordinates(coordinates) ==
  LET flat == to_list(coordinates)
  IN  IF flat.err # ""
      THEN flat
      ELSE LET mid_point == Len(flat.val) \div 2
               first_half == SubSeq(flat.val, 1, mid_point)
               second_half == SubSeq(flat.val, mid_point + 1, Len(flat.val))
           IN  Ok([i \in 1..Min(Len(first_half), Len(second_half)) |->
                     Coordinate(first_half[i], second_half[i])])

\* BifidCipher._coordinates_to_message
coordinates_to_message(square, coordinates) ==
  [i \in 1..Len(coordinates) |-> get_character_from_coordinate(square, coordinates[i])]

\* the loop of _encrypt_period / _decrypt_period that looks every character up
period_coordinates(square, chunk) ==
  IF \E i \in 1..Len(chunk) : get_coordinate(square, <<chunk[i]>>).err # ""
  THEN Raise("ValueError")
  ELSE Ok([i \in 1..Len(chunk) |-> get_coordinate(square, <<chunk[i]>>).val])

\* BifidCipher._encrypt_period
encrypt_period(square, chunk) ==
  LET pcs == period_coordinates(square, chunk)
  IN  IF pcs.err # "" THEN pcs
      ELSE LET encrypted_coordinates == get_encrypted_coordinates(pcs.val)
           IN  IF encrypted_coordinates.err # "" THEN encrypted_coordinates
               ELSE Ok(coordinates_to_message(square, encrypted_coordinates.val))

\* BifidCipher._decrypt_period
decrypt_period(square, chunk) ==
  LET pcs == period_coordinates(square, chunk)
  IN  IF pcs.err # "" THEN pcs
      ELSE LET decrypted_coordinates == get_decrypted_coordinates(pcs.val)
           IN  IF decrypted_coordinates.err # "" THEN decrypted_coordinates
               ELSE Ok(coordinates_to_message(square, decrypted_coordinates.val))

-----------------------------------------------------------------------------
(* textwrap.wrap(message, self.period), as encrypt_message and            *)
(* decrypt_message call it: default options, text without hyphens         *)

\* the ASCII characters str.isspace() holds of, which str.strip() removes:
\* those of textwrap._whitespace and the separators 0x1c, 0x1d, 0x1e, 0x1f
StripSpace == Whitespace \cup {"", "", "", ""}

\* chunk.strip() == ''
IsBlank(chunk) == \A i \in 1..Len(chunk) : chunk[i] \in StripSpace

\* str.expandtabs(8): a tab fills up to the next multiple of 8 columns; the
\* column starts again after a newline or a carriage return
RECURSIVE expandtabs(_, _)
expandtabs(text, col) ==
  IF text = <<>> THEN <<>>
  ELSE IF Head(text) = "\t"
       THEN [i \in 1..(8 - (col % 8)) |-> " "]
              \o expandtabs(Tail(text), col + 8 - (col % 8))
       ELSE <<Head(text)>>
              \o expandtabs(Tail(text), IF Head(text) \in {"\n", "\r"} THEN 0 ELSE col + 1)

\* TextWrapper._munge_whitespace: tabs expanded, then every whitespace
\* character becomes a space
munge_whitespace(text) ==
  LET t == expandtabs(text, 0)
  IN  [i \in 1..Len(t) |-> IF t[i] \in Whitespace THEN " " ELSE t[i]]

\* length of the leading run of text that is all whitespace or all non-whitespace
RunLen(text) ==
  CHOOSE n \in 1..Len(text) :
    /\ \A i \in 1..n : (text[i] \in Whitespace) = (text[1] \in Whitespace)
    /\ n = Len(text) \/ (text[n + 1] \in Whitespace) # (text[1] \in Whitespace)

\* TextWrapper._split: words and the whitespace between them
RECURSIVE split_chunks(_)
split_chunks(text) ==
  IF text = <<>> THEN <<>>
  ELSE <<SubSeq(text, 1, RunLen(text))>>
         \o split_chunks(SubSeq(text, RunLen(text) + 1, Len(text)))

\* the inner while of _wrap_chunks: chunks that still fit on the current line
RECURSIVE fill_line(_, _, _, _)
fill_line(chunks, cur_line, cur_len, width) ==
  IF chunks # <<>> /\ cur_len + Len(Head(chunks)) <= width
  THEN fill_line(Tail(chunks), Append(cur_line, Head(chunks)),
                 cur_len + Len(Head(chunks)), width)
  ELSE [chunks |-> chunks, cur_line |-> cur_line, cur_len |-> cur_len]

\* the outer while of TextWrapper._wrap_chunks, with _handle_long_word
RECURSIVE wrap_chunks(_, _, _)
wrap_chunks(chunks, lines, width) ==
  IF chunks = <<>> THEN lines
  ELSE
    LET c1 == IF IsBlank(Head(chunks)) /\ lines # <<>> THEN Tail(chunks) ELSE chunks
        f == fill_line(c1, <<>>, 0, width)
        long == f.chunks # <<>> /\ Len(Head(f.chunks)) > width
        space_left == IF width < 1 THEN 1 ELSE width - f.cur_len
        line2 == IF long
                 THEN Append(f.cur_line, SubSeq(Head(f.chunks), 1, space_left))
                 ELSE f.cur_line
        c2 == IF long
              THEN <<SubSeq(Head(f.chunks), space_left + 1, Len(Head(f.chunks)))>>
                     \o Tail(f.chunks)
              ELSE f.chunks
        line3 == IF line2 # <<>> /\ IsBlank(line2[Len(line2)])
                 THEN SubSeq(line2, 1, Len(line2) - 1)
                 ELSE line2
        lines2 == IF line3 # <<>> THEN Append(lines, Join(line3)) ELSE lines
    IN  wrap_chunks(c2, lines2, width)

\* wrap called with a width one too large
wrap_wide(text, width) ==
  IF width <= 0
  THEN Raise("ValueError")
  ELSE Ok(wrap_chunks(split_chunks(munge_whitespace(text)), <<>>, width + 1))

\* textwrap.wrap(text, width)
wrap(text, width) ==
  IF width <= 0
  THEN Raise("ValueError")
  ELSE Ok(wrap_chunks(split_chunks(munge_whitespace(text)), <<>>, width))

-----------------------------------------------------------------------------
(* BifidCipher: messages *)

\* the for loop of encrypt_message: message = f'{message}{self._encrypt_period(period)}'
RECURSIVE encrypt_periods(_, _, _)
encrypt_periods(square, chunks, message) ==
  IF chunks = <<>> THEN Ok(message)
  ELSE LET e == encrypt_period(square, Head(chunks))
       IN  IF e.err # "" THEN e
           ELSE encrypt_periods(square, Tail(chunks), message \o e.val)

\* the for loop of decrypt_message
RECURSIVE decrypt_periods(_, _, _)
decrypt_periods(square, chunks, message) ==
  IF chunks = <<>> THEN Ok(message)
  ELSE LET d == decrypt_period(square, Head(chunks))
       IN  IF d.err # "" THEN d
           ELSE decrypt_periods(square, Tail(chunks), message \o d.val)

\* BifidCipher.encrypt_message
encrypt_message(square, p, message) ==
  LET w == wrap(clean_input_string(message), p)
  IN  IF w.err # "" THEN w ELSE encrypt_periods(square, w.val, <<>>)

\* BifidCipher.decrypt_message
decrypt_message(square, p, message) ==
  LET w == wrap(message, p)
  IN  IF w.err # "" THEN w ELSE decrypt_periods(square, w.val, <<>>)

-----------------------------------------------------------------------------
(* Inputs *)

\* the key of main.py
KeyMain == UpperCase

\* a keyword square typed in lower case, in groups of five
KeyWord ==
  <<"b","g","w","k","z"," ","q","p","n","d","s"," ","i","o","a","x","e"," ",
    "f","c","l","u","m"," ","t","h","y","v","r">>

KeyShort == <<"s","h","o","r","t">>

\* 25 characters with a repeated letter
KeyDup == <<"A", "A">> \o SubSeq(ALPHABET, 3, 25)

\* 25 characters, one of them a digit
KeyDigit == <<"1">> \o Tail(ALPHABET)

\* 25 characters before the J is deleted, 24 after
KeyWithJ == <<"J">> \o SubSeq(ALPHABET, 1, 24)

\* 26 characters, none of them J
KeyLong == ALPHABET \o <<"A">>

Keys == {KeyMain, KeyWord, KeyShort, KeyDup, KeyDigit, KeyWithJ, KeyLong}

\* random.sample(population, len(population)): draws[i + 1] is what
\* randbelow(n - i) returns in round i; the drawn element leaves the pool and
\* the last element of the pool takes its place
RECURSIVE random_sample(_, _)
random_sample(pool, draws) ==
  IF pool = <<>> THEN <<>>
  ELSE LET j == Head(draws) + 1
           n == Len(pool)
       IN  <<pool[j]>> \o random_sample([i \in 1..(n - 1) |-> IF i = j THEN pool[n] ELSE pool[i]],
                                        Tail(draws))

\* what randbelow returns in the 25 rounds after random.seed(0)
DrawsSeed0 ==
  <<12, 13, 1, 8, 16, 15, 12, 9, 15, 11, 9, 3, 8, 2, 4, 2, 1, 4, 4, 5, 4, 1, 1, 0, 0>>

\* sequences of draws: round i draws below 25 - i
Draws ==
  {[i \in 1..25 |-> (a * i) % (26 - i)] : a \in 0..MaxDraw} \cup {DrawsSeed0}

\* outcomes of random.sample(ALPHABET, 25): permutations of ALPHABET
Samples == {random_sample(ALPHABET, d) : d \in Draws}

\* the default period, periods up to the bound, and the unchecked period 0
Periods == (0..MaxPeriod) \cup {5}

InChars == {"B", "q", "j", " ", "1"}

\* the message of main.py
Hello ==
  <<"h","e","l","l","o",","," ","h","o","w"," ","a","r","e"," ","y","o","u">>

\* messages with a digit, with punctuation and an underscore, with several
\* spaces, with a tab and a form feed, with the separator 0x1c
Probes ==
  { <<>>, <<"q">>, <<"a","1">>, <<"j","_","B",",","q">>,
    <<"B","Q"," "," ","I","B","Q">>, <<"\t","B","\f","Q","\t","I">>,
    <<"B","","Q">>,
    Hello, clean_input_string(Hello) }

Strings(n) == UNION {[1..k -> InChars] : k \in 0..n}

Messages == Strings(MaxLen) \cup Probes

CoordinateLists ==
  UNION {[1..k -> {Coordinate(r, c) : r \in 0..4, c \in 0..4}] : k \in 0..MaxCoords}

-----------------------------------------------------------------------------
(* The cipher object and its calls *)

Init ==
  /\ pc = "new"
  /\ key = None
  /\ polybius_square = <<>>
  /\ period = 0
  /\ op = "none"
  /\ arg = <<>>
  /\ periods = <<>>
  /\ ret = Ok(<<>>)
  /\ plain = <<>>
  /\ chained = FALSE
  /\ step = "input"
  /\ given = <<>>
  /\ fractionated = Ok(<<>>)
  /\ defractionated = Ok(<<>>)

\* BifidCipher.__init__(polybius_square_string, period)
New(polybius_square_string, p, sample) ==
  /\ pc = "new"
  /\ LET r == process_polybius_square(polybius_square_string, sample)
     IN  /\ pc' = IF r.err = "" THEN "ready" ELSE "failed"
         /\ polybius_square' = IF r.err = "" THEN r.val ELSE polybius_square
         /\ period' = IF r.err = "" THEN p ELSE period
         /\ ret' = IF r.err = "" THEN Ok(<<>>) ELSE r
  /\ key' = polybius_square_string
  /\ op' = "init"
  /\ UNCHANGED <<arg, periods, plain, chained, transform>>

\* the local `periods` of a call, empty when wrap raised
Wrapped(text, width) ==
  LET w == wrap(text, width) IN IF w.err = "" THEN w.val ELSE <<>>

\* encrypt_message keeping the length of its message in self.period
EncryptStoring(message) ==
  /\ pc = "ready"
  /\ op' = "encrypt"
  /\ arg' = message
  /\ periods' = Wrapped(clean_input_string(message), period)
  /\ ret' = encrypt_message(polybius_square, period, message)
  /\ plain' = <<>>
  /\ chained' = FALSE
  /\ period' = Len(clean_input_string(message))
  /\ UNCHANGED <<pc, key, polybius_square, transform>>

\* cipher.encrypt_message(message)
Encrypt(message) ==
  /\ pc = "ready"
  /\ op' = "encrypt"
  /\ arg' = message
  /\ periods' = Wrapped(clean_input_string(message), period)
  /\ ret' = encrypt_message(polybius_square, period, message)
  /\ plain' = <<>>
  /\ chained' = FALSE
  /\ UNCHANGED <<engine, transform>>

\* cipher.decrypt_message(message); from_main when message is the `a` of main()
Decrypt(message, from_main) ==
  /\ pc = "ready"
  /\ op' = "decrypt"
  /\ arg' = message
  /\ periods' = Wrapped(message, period)
  /\ ret' = decrypt_message(polybius_square, period, message)
  /\ plain' = IF from_main THEN arg ELSE <<>>
  /\ chained' = from_main
  /\ UNCHANGED <<engine, transform>>

\* main(): print(cipher.decrypt_message(a)) with a = cipher.encrypt_message(...)
DecryptReturned ==
  /\ op = "encrypt"
  /\ ret.err = ""
  /\ Decrypt(ret.val, TRUE)

\* one cipher object, any sequence of calls on it
Next ==
  \/ \E k \in Keys, p \in Periods : New(k, p, <<>>)
  \/ \E s \in Samples, p \in Periods : New(None, p, s)
  \/ \E m \in Probes : Encrypt(m)
  \/ \E c \in Probes : Decrypt(c, FALSE)
  \/ DecryptReturned

Spec == Init /\ [][Next]_vars

\* main(): construct the cipher, make one call, decrypt what encrypt_message returned
NextMain ==
  \/ \E k \in Keys, p \in Periods : New(k, p, <<>>)
  \/ \E s \in Samples, p \in Periods : New(None, p, s)
  \/ op = "init" /\ \E m \in Messages : Encrypt(m)
  \/ op = "init" /\ \E c \in Messages : Decrypt(c, FALSE)
  \/ DecryptReturned

SpecMain == Init /\ [][NextMain]_vars

-----------------------------------------------------------------------------
(* The coordinate transforms on their own *)

InitCoord ==
  /\ pc = "new"
  /\ key = None
  /\ polybius_square = <<>>
  /\ period = 0
  /\ op = "none"
  /\ arg = <<>>
  /\ periods = <<>>
  /\ ret = Ok(<<>>)
  /\ plain = <<>>
  /\ chained = FALSE
  /\ step = "input"
  /\ given \in CoordinateLists
  /\ fractionated = Ok(<<>>)
  /\ defractionated = Ok(<<>>)

\* BifidCipher._get_encrypted_coordinates(given)
Fractionate ==
  /\ step = "input"
  /\ step' = "encrypted"
  /\ fractionated' = get_encrypted_coordinates(given)
  /\ UNCHANGED <<engine, call, given, defractionated>>

\* BifidCipher._get_decrypted_coordinates(the fractionated given)
Defractionate ==
  /\ step = "encrypted"
  /\ fractionated.err = ""
  /\ step' = "decrypted"
  /\ defractionated' = get_decrypted_coordinates(fractionated.val)
  /\ UNCHANGED <<engine, call, given, fractionated>>

\* BifidCipher._get_decrypted_coordinates(given)
DefractionateInput ==
  /\ step = "input"
  /\ step' = "direct"
  /\ defractionated' = get_decrypted_coordinates(given)
  /\ UNCHANGED <<engine, call, given, fractionated>>

NextCoord == Fractionate \/ Defractionate \/ DefractionateInput

SpecCoord == InitCoord /\ [][NextCoord]_vars

-----------------------------------------------------------------------------
(* Properties *)

Cells(square) == {square[r][c] : r \in 1..5, c \in 1..5}

\* a square holding the 25 distinct letters of the alphabet without J
ValidSquare(square) ==
  /\ Len(square) = 5
  /\ \A r \in 1..5 : Len(square[r]) = 5
  /\ Cells(square) = Range(ALPHABET)
  /\ Cardinality(Cells(square)) = 25

LettersOnly(m) == \A i \in 1..Len(m) : m[i] \in Letters

\* a message as normalization leaves it
Normalized(m) == \A i \in 1..Len(m) : m[i] \in (Range(ALPHABET) \cup Digits)

\* consecutive chunks of p characters, the last one holding the remainder
Chunks(m, p) ==
  [i \in 1..((Len(m) + p - 1) \div p) |->
     SubSeq(m, (i - 1) * p + 1, Min(i * p, Len(m)))]

\* C1: with a valid square and a positive period, encrypting a letters-only
\* message succeeds and decrypting what encrypt_message returned gives the
\* message upper-cased with every J replaced by I.
RoundTrip ==
  (pc = "ready" /\ ValidSquare(polybius_square) /\ period > 0) =>
    /\ (op = "encrypt" /\ LettersOnly(arg)) => ret.err = ""
    /\ (op = "decrypt" /\ chained /\ LettersOnly(plain)) =>
         ret = Ok(Replace(Upper(plain), "J", "I"))

RoundTripWitness ==
  /\ pc = "ready" /\ ValidSquare(polybius_square) /\ period = 2
  /\ op = "decrypt" /\ chained
  /\ plain = <<"q", "j", "B">>
  /\ arg # <<"Q", "I", "B">>
  /\ ret = Ok(<<"Q", "I", "B">>)

\* C2: with a valid square and a positive period encrypt_message never raises,
\* whatever the input string.
EncryptAlwaysSucceeds ==
  (pc = "ready" /\ ValidSquare(polybius_square) /\ period > 0 /\ op = "encrypt") =>
    ret.err = ""

\* C3: with a valid square and a positive period, encrypt_message returns as
\* many letters as clean(m) has when clean(m) consists of letters of the
\* square, and decrypt_message returns as many letters as a ciphertext of
\* letters of the square has.
LengthPreserved ==
  (pc = "ready" /\ ValidSquare(polybius_square) /\ period > 0) =>
    /\ (op = "encrypt" /\ Range(clean_input_string(arg)) \subseteq Cells(polybius_square)) =>
         ret.err = "" /\ Len(ret.val) = Len(clean_input_string(arg))
    /\ (op = "decrypt" /\ Range(arg) \subseteq Cells(polybius_square)) =>
         ret.err = "" /\ Len(ret.val) = Len(arg)

LengthPreservedWitness ==
  /\ pc = "ready" /\ ValidSquare(polybius_square) /\ period = 5
  /\ op = "encrypt" /\ arg = Hello
  /\ ret.err = "" /\ Len(ret.val) = 14

\* C4: construction from a key succeeds exactly when the key, upper-cased,
\* with every J deleted and then cleaned, has 25 characters; otherwise it
\* raises ValueError and no square exists; on success the grid is those 25
\* characters in order, five to a row.
ConstructionIff ==
  (pc # "new" /\ key # None) =>
    LET k == clean_input_string(Delete(Upper(key), "J"))
    IN  /\ pc = "ready" <=> Len(k) = 25
        /\ pc = "failed" => (polybius_square = <<>> /\ (op = "init" => ret.err = "ValueError"))
        /\ pc = "ready" =>
             /\ Len(polybius_square) = 5
             /\ \A r \in 1..5 : Len(polybius_square[r]) = 5
             /\ \A r \in 1..5, c \in 1..5 : polybius_square[r][c] = k[5 * (r - 1) + c]

ConstructionWitness ==
  /\ pc = "ready" /\ op = "init" /\ key = KeyMain
  /\ polybius_square[2] = <<"F", "G", "H", "I", "K">>

\* C5: every constructed square has 25 pairwise distinct cells, each a letter
\* of the alphabet without J.
SquareInvariant == pc = "ready" => ValidSquare(polybius_square)

\* C6 as claimed: decrypt_message(c) equals decrypt_message(clean(c)) for
\* every string c (here already on the engines whose square is valid).
DecryptNormalizes ==
  (pc = "ready" /\ ValidSquare(polybius_square) /\ op = "decrypt") =>
    ret = decrypt_message(polybius_square, period, clean_input_string(arg))

\* C6 as amended: encrypt_message(m) equals encrypt_message(clean(m)) for every
\* string m, and decrypt_message(c) equals decrypt_message(clean(c)) for every
\* c made only of the upper-case letters other than J.
NormalizedBeforeEncrypt ==
  pc = "ready" =>
    /\ op = "encrypt" =>
         ret = encrypt_message(polybius_square, period, clean_input_string(arg))
    /\ (op = "decrypt" /\ Range(arg) \subseteq Range(ALPHABET)) =>
         ret = decrypt_message(polybius_square, period, clean_input_string(arg))

NormalizedBeforeEncryptWitness ==
  /\ pc = "ready" /\ ValidSquare(polybius_square) /\ period = 2
  /\ op = "encrypt" /\ arg = <<"j", " ", "q">>
  /\ ret.err = "" /\ Len(ret.val) = 2

\* C7: a decrypt_message whose ciphertext holds a character absent from the
\* square ends in a LookupError.
LookupFails ==
  ( /\ pc = "ready" /\ ValidSquare(polybius_square) /\ op = "decrypt"
    /\ \E i \in 1..Len(periods) : ~(Range(periods[i]) \subseteq Cells(polybius_square)) ) =>
    ret.err = "LookupError"

\* C8: no encrypt_message or decrypt_message call changes the square or the
\* period, and what a call returns is what the square and period of before
\* the call give for its message alone.
Stateless ==
  [][pc = "ready" =>
       /\ pc' = "ready"
       /\ polybius_square' = polybius_square
       /\ period' = period
       /\ ret' = IF op' = "encrypt"
                 THEN encrypt_message(polybius_square, period, arg')
                 ELSE decrypt_message(polybius_square, period, arg')]_vars

StatelessWitness ==
  /\ pc = "ready" /\ key = KeyWord /\ period = 5
  /\ polybius_square = process_polybius_square(KeyWord, <<>>).val
  /\ op = "decrypt" /\ chained /\ plain = Hello
  /\ ret = Ok(clean_input_string(Hello))

\* C9: with a positive period p a normalized message of length L is split
\* into ceil(L/p) consecutive chunks of p characters, the last one holding the
\* remainder, and the result is the concatenation, in order, of each chunk
\* transformed on its own.
Segmentation ==
  LET s == IF op = "encrypt" THEN clean_input_string(arg) ELSE arg
      chunks == Chunks(s, period)
      out == [i \in 1..Len(chunks) |->
                IF op = "encrypt" THEN encrypt_period(polybius_square, chunks[i])
                ELSE decrypt_period(polybius_square, chunks[i])]
  IN  (pc = "ready" /\ op \in {"encrypt", "decrypt"} /\ period > 0 /\ Normalized(s)) =>
        /\ periods = chunks
        /\ IF \E i \in 1..Len(chunks) : out[i].err # ""
           THEN ret.err = "AttributeError"
           ELSE ret = Ok(Join([i \in 1..Len(chunks) |-> out[i].val]))

SegmentationWitness ==
  /\ pc = "ready" /\ period = 5 /\ op = "encrypt" /\ arg = Hello
  /\ [i \in 1..Len(periods) |-> Len(periods[i])] = <<5, 5, 4>>
  /\ ret.err = ""
  /\ SubSeq(ret.val, 11, 14) = encrypt_period(polybius_square, <<"E", "Y", "O", "U">>).val

\* C10: _get_encrypted_coordinates pairs, two at a time, the rows followed by
\* the columns and never raises; _get_decrypted_coordinates pairs element i
\* of the first half of the flattened list with element i of the second
\* half; and decrypting the encrypted coordinates gives the coordinates back,
\* every row and column in 0..4.
FractionationInverse ==
  LET n == Len(given)
      combined == [k \in 1..(2 * n) |-> IF k <= n THEN given[k][1] ELSE given[k - n][2]]
      flat == [k \in 1..(2 * n) |-> given[(k + 1) \div 2][IF k % 2 = 1 THEN 1 ELSE 2]]
  IN  /\ step \in {"encrypted", "decrypted"} =>
           fractionated = Ok([i \in 1..n |-> <<combined[2 * i - 1], combined[2 * i]>>])
      /\ step = "direct" =>
           defractionated = Ok([i \in 1..n |-> <<flat[i], flat[n + i]>>])
      /\ step = "decrypted" =>
           /\ defractionated = Ok(given)
           /\ \A i \in 1..n : defractionated.val[i] \in (0..4) \X (0..4)

FractionationWitness ==
  /\ step = "decrypted"
  /\ given = <<<<3, 2>>, <<0, 4>>, <<1, 1>>>>
  /\ fractionated = Ok(<<<<3, 0>>, <<1, 2>>, <<4, 1>>>>)
  /\ defractionated = Ok(given)

====
